---- MODULE Spec2Model ----
(***************************************************************************)
(* Incremental synchronisation engine and batch normalisation pipeline of  *)
(* the CHE168 parser: the bulk loader (app/loaders/initial_loader.py), the *)
(* daily updater (app/loaders/daily_updater.py), the normaliser            *)
(* (app/normalizers/data_normalizer.py), the PID-file lock                 *)
(* (app/utils/single_instance.py) and the entry-point scripts (scripts/).  *)
(*                                                                         *)
(* The database is modelled by its committed tables; every SQLAlchemy      *)
(* session is modelled by the objects it has loaded (identity map), the    *)
(* objects it has added and not yet inserted (autoflush is off, so they    *)
(* are invisible to the session's own SELECTs) and a commit step that      *)
(* either applies all of that or nothing.                                  *)
(*                                                                         *)
(* Not modelled: the columns created_at and first_loaded_at of raw_data,   *)
(* the processed_data columns other than inner_id, active_status and year. *)
(***************************************************************************)
EXTENDS Integers, Sequences, FiniteSets, TLC

\* ------------------------------------------------------------------ bounds
\* scripts started, page requests made and records served in one behaviour
MaxRuns == 2
MaxClock == 2
MaxRecords == 2

\* ------------------------------------------------------- program constants
MinYear == 1900
CurrentYear == 2026
MaxLoadErrors == 10

\* Python's None for a nullable integer (the value universes are >= 0)
None == -1

\* ---------------------------------------------------------------- universes
Procs == {1, 2}
Dates == {1, 2}
Cursors == {1}
WalkCursors == {1, 2}
BatchSizes == {1, 2}
Limits == {None, 1}

\* external ids; NoId is a record without (or with an empty) inner_id
Ids == {"a", "b"}
NoId == ""

\* --------------------------------------------------------------- payloads
\* A JSON key is the sequence of its parts: "new_year" is <<"new_", "year">>,
\* so that str.startswith('new_') and key[4:] are Head and Tail.
JNull == [kind |-> "null"]
\* an incoming JSON object keeps the order of its members
JItems(items) == [kind |-> "object", items |-> items]
\* a stored JSONB object is a mapping
JObject(fields) == [kind |-> "object", fields |-> fields]
EmptyDict == [k \in {} |-> 0]
\* a JSON number and a JSON string; a string is the sequence of its characters
JInt(n) == [int |-> n]
JStr(chars) == [str |-> chars]
IsStr(value) == DOMAIN value = {"str"}

Range(s) == {s[i] : i \in 1..Len(s)}

\* the payloads the upstream API serves: null, a year in range, a year out
\* of range (current_year + 2) and a delta that puts the year out of range
Payloads ==
    {JNull,
     JItems(<< << <<"year">>, JInt(2019) >> >>),
     JItems(<< << <<"year">>, JInt(CurrentYear + 2) >> >>),
     JItems(<< << <<"new_", "year">>, JInt(CurrentYear + 2) >> >>)}

Put(f, k, v) == [x \in DOMAIN f \cup {k} |-> IF x = k THEN v ELSE f[x]]

RECURSIVE DictOf(_)
\* the dict a JSON object parses to
DictOf(items) ==
    IF items = <<>> THEN EmptyDict
    ELSE LET n == Len(items)
         IN Put(DictOf(SubSeq(items, 1, n - 1)), items[n][1], items[n][2])

\* record.get('data', {}) as stored into the JSONB column
Stored(data) == IF data.kind = "null" THEN JNull ELSE JObject(DictOf(data.items))

\* a bug: no key is taken for a delta
NeverStartsWithNew(key) == FALSE

StartsWithNew(key) == Len(key) >= 1 /\ Head(key) = "new_"

RECURSIVE MergeInto(_, _)
MergeInto(merged, items) ==
    IF items = <<>> THEN merged
    ELSE LET key == Head(items)[1]
             value == Head(items)[2]
             mapped_key == IF StartsWithNew(key) THEN Tail(key) ELSE key
         IN MergeInto(Put(merged, mapped_key, value), Tail(items))

\* merge_json(existing_data, new_data), both dicts
merge_json(existing_data, new_data) == MergeInto(existing_data, new_data)

\* ------------------------------------------------------------- extraction
IsNull(data) == data.kind = "null"

\* str.isdigit and int() on decimal digits
DigitValue ==
    "0" :> 0 @@ "1" :> 1 @@ "2" :> 2 @@ "3" :> 3 @@ "4" :> 4 @@
    "5" :> 5 @@ "6" :> 6 @@ "7" :> 7 @@ "8" :> 8 @@ "9" :> 9

IsDigit(c) == c \in DOMAIN DigitValue

RECURSIVE ToInt(_)
ToInt(digits) ==
    IF digits = <<>> THEN 0
    ELSE 10 * ToInt(SubSeq(digits, 1, Len(digits) - 1)) + DigitValue[digits[Len(digits)]]

\* raw_data.get('year'), "if year:" (0, '' and a missing key are falsy), and
\* the conversion: a string keeps its digits and is None when none is left
GetYear(fields) ==
    IF <<"year">> \notin DOMAIN fields THEN None
    ELSE LET year == fields[<<"year">>]
         IN IF IsStr(year)
            THEN LET digits == SelectSeq(year.str, IsDigit)
                 IN IF digits = <<>> THEN None ELSE ToInt(digits)
            ELSE IF year.int = 0 THEN None ELSE year.int

\* _normalize_record on a dict (a null payload raises AttributeError)
_normalize_record(fields) == [year |-> GetYear(fields)]

YearInRange(year) == MinYear <= year /\ year <= CurrentYear + 1

\* _validate_normalized_data: inner_id present, year (when truthy) in range
_validate_normalized_data(inner_id, normalized) ==
    /\ inner_id # NoId
    /\ (normalized.year # None /\ normalized.year # 0) => YearInRange(normalized.year)

\* a raw payload the pipeline can normalise: extraction does not raise and
\* validation accepts the result
Normalizable(row) ==
    /\ ~IsNull(row.data)
    /\ _validate_normalized_data(row.inner_id, _normalize_record(row.data.fields))

\* ------------------------------------------------------------------ tables
RawData(inner_id, change_type, data, now, source, active_status) ==
    [inner_id |-> inner_id, change_type |-> change_type, data |-> data,
     last_updated_at |-> now, source |-> source,
     active_status |-> active_status, is_processed |-> FALSE]

\* a bug: a new row of processed_data is always active
ProcessedDataActive(inner_id, active_status, normalized) ==
    [inner_id |-> inner_id, active_status |-> 0, year |-> normalized.year]

ProcessedData(inner_id, active_status, normalized) ==
    [inner_id |-> inner_id, active_status |-> active_status, year |-> normalized.year]

SyncState(process_date, last_change_id) ==
    [last_successful_date |-> process_date, last_change_id |-> last_change_id]

\* select(T).where(T.inner_id == inner_id): the primary keys that match
Matching(table, inner_id) == {i \in 1..Len(table) : table[i].inner_id = inner_id}

TheOne(S) == CHOOSE x \in S : TRUE

\* ---------------------------------------------------------------- sessions
\* One loaded object: the row as loaded and the row as the code changed it.
Loaded(row) == [orig |-> row, cur |-> row]

\* identity map: a SELECT returns the object the session already holds
Load(objs, table, pk) == IF pk \in DOMAIN objs THEN objs ELSE Put(objs, pk, Loaded(table[pk]))

\* flush of one loaded object: UPDATE of the attributes the code changed;
\* last_updated_at is declared onupdate=datetime.utcnow, so an UPDATE that
\* does not set it sets it to the time of the flush
Flush(row, obj, now) ==
    [f \in DOMAIN row |->
        IF obj.cur[f] # obj.orig[f] THEN obj.cur[f]
        ELSE IF f = "last_updated_at" /\ obj.cur # obj.orig THEN now
        ELSE row[f]]

FlushAll(table, objs, pending, now) ==
    [i \in 1..Len(table) |-> IF i \in DOMAIN objs THEN Flush(table[i], objs[i], now)
                             ELSE table[i]]
    \o pending

\* a bug: no rollback, what was flushed before the exception stays
CommitKeepsFlush(table, flushed, ok) == flushed

\* a bug: the UPDATEs of the flush stay, its INSERTs are lost
CommitPartial(table, flushed, ok) == IF ok THEN flushed ELSE SubSeq(flushed, 1, Len(table))

\* "await session.commit()" and, when it raised, "await session.rollback()":
\* the table afterwards, given the table the flush would leave
Commit(table, flushed, ok) == IF ok THEN flushed ELSE table

\* a bug: the column without its unique constraint
NoUniqueConstraint(table, pending) == TRUE

\* raw_data.inner_id is declared unique=True: the INSERTs of a commit fail
\* when an added row repeats an inner_id of the table or of the same flush
UniqueInnerId(table, pending) ==
    /\ \A i \in 1..Len(pending) : Matching(table, pending[i].inner_id) = {}
    /\ \A i, j \in 1..Len(pending) : pending[i].inner_id = pending[j].inner_id => i = j

ZeroPageStats == [loaded |-> 0, updated |-> 0, removed |-> 0, errors |-> 0, duplicates |-> 0]

Bump(stats, field) == [stats EXCEPT ![field] = @ + 1]

\* the session of one _save_changes / _save_page / _process_batch call: the
\* loaded and the added objects of raw_data and of processed_data, the
\* call's stats, the batch of _process_batch, the number of records read
\* from the page and the call's now
NoSession == [objs |-> EmptyDict, pending |-> <<>>, pobjs |-> EmptyDict,
              ppending |-> <<>>, stats |-> ZeroPageStats, records |-> <<>>, count |-> 0,
              now |-> 0]

\* "now = datetime.utcnow()" at the head of _save_changes and _save_page
OpenSession(now) == [NoSession EXCEPT !.now = now]

\* ----------------------------------------------------------- change applier
\* the change records the upstream API serves; a removed record's data and
\* every field of a record without inner_id are never read
ChangeRecords ==
    {[inner_id |-> i, change_type |-> t, data |-> d] :
        i \in Ids, t \in {"added", "changed"}, d \in Payloads}
    \cup {[inner_id |-> i, change_type |-> "removed", data |-> JItems(<<>>)] : i \in Ids}
    \cup {[inner_id |-> NoId, change_type |-> "added", data |-> JItems(<<>>)]}

\* the offers of the bulk listing: no change_type, so 'added' is stored
Offers == {r \in ChangeRecords : r.change_type = "added"}

SetCur(objs, pk, row) == [objs EXCEPT ![pk].cur = row]

\* "existing_record.data or {}"
DataOrEmpty(data) == IF IsNull(data) THEN EmptyDict ELSE data.fields

\* a bug: 'added' for an id that has a row stores the payload again
DuplicateOverwrites(seen, pk, record) ==
    [seen EXCEPT !.objs = SetCur(@, pk, [@[pk].cur EXCEPT !.data = Stored(record.data),
                                                         !.is_processed = FALSE]),
                 !.stats = Bump(@, "updated")]

\* a bug: 'added' for an id that has a row makes the row active again
DuplicateReactivates(seen, pk, record) ==
    [seen EXCEPT !.objs = SetCur(@, pk, [@[pk].cur EXCEPT !.active_status = 0]),
                 !.stats = Bump(@, "duplicates")]

\* 'added' for an id that has a row: "stats['duplicates'] += 1; continue"
Duplicate(seen, pk, record) == [seen EXCEPT !.stats = Bump(@, "duplicates")]

\* One iteration of the loop of DailyUpdater._save_changes over a session s
\* reading the committed table.
SaveChange(s, table, record, source) ==
    LET inner_id == record.inner_id
        found == Matching(table, inner_id)
        pk == IF found = {} THEN 0 ELSE TheOne(found)
        objs == IF pk = 0 THEN s.objs ELSE Load(s.objs, table, pk)
        seen == [s EXCEPT !.objs = objs, !.count = @ + 1]
        existing_record == objs[pk].cur
        created(active_status, data) ==
            [seen EXCEPT !.pending = Append(@, RawData(inner_id, record.change_type, data,
                                                       s.now, source, active_status)),
                         !.stats = Bump(@, "loaded")]
    IN  IF inner_id = NoId
        THEN [s EXCEPT !.stats = Bump(@, "errors"), !.count = @ + 1]
        ELSE IF Cardinality(found) > 1
        THEN \* scalar_one_or_none raises MultipleResultsFound
             [s EXCEPT !.stats = Bump(@, "errors"), !.count = @ + 1]
        ELSE IF record.change_type = "added"
        THEN IF pk # 0
             THEN Duplicate(seen, pk, record)
             ELSE created(0, Stored(record.data))
        ELSE IF record.change_type = "changed"
        THEN IF pk # 0
             THEN IF IsNull(record.data)
                  THEN \* merge_json raises on new_data.items()
                       [seen EXCEPT !.stats = Bump(@, "errors")]
                  ELSE [seen EXCEPT
                          !.objs = SetCur(objs, pk,
                              [existing_record EXCEPT
                                  !.change_type = "changed",
                                  !.data = JObject(merge_json(DataOrEmpty(existing_record.data),
                                                              record.data.items)),
                                  !.last_updated_at = s.now,
                                  !.is_processed = FALSE]),
                          !.stats = Bump(@, "updated")]
             ELSE created(0, Stored(record.data))
        ELSE \* removed
             IF pk # 0
             THEN [seen EXCEPT
                     !.objs = SetCur(objs, pk,
                         [existing_record EXCEPT
                             !.change_type = "removed",
                             !.active_status = 1,
                             !.last_updated_at = s.now,
                             !.is_processed = FALSE]),
                     !.stats = Bump(@, "removed")]
             ELSE created(1, JObject(EmptyDict))

ZeroLoadStats == [loaded |-> 0, skipped |-> 0]

\* One iteration of the loop of InitialLoader._save_page.
SavePageRecord(s, table, record, source) ==
    LET inner_id == record.inner_id
        found == Matching(table, inner_id)
        seen == [s EXCEPT !.count = @ + 1,
                          !.objs = IF Cardinality(found) = 1
                                   THEN Load(s.objs, table, TheOne(found)) ELSE @]
    IN  IF inner_id = NoId \/ found # {}
        THEN [seen EXCEPT !.stats = Bump(@, "skipped")]
        ELSE [seen EXCEPT !.pending = Append(@, RawData(inner_id, record.change_type,
                                                       Stored(record.data), s.now, source, 0)),
                          !.stats = Bump(@, "loaded")]

\* ------------------------------------------------------------- normaliser
ZeroBatchStats == [processed |-> 0, created |-> 0, updated |-> 0, errors |-> 0]

\* .where(is_processed == False).order_by(id).limit(batch_size).offset(offset)
Unprocessed(table) == {i \in 1..Len(table) : ~table[i].is_processed}

RECURSIVE Ordered(_)
Ordered(S) ==
    IF S = {} THEN <<>>
    ELSE LET m == CHOOSE x \in S : \A y \in S : x <= y
         IN <<m>> \o Ordered(S \ {m})

Min(a, b) == IF a <= b THEN a ELSE b

SelectBatch(table, batch_size, offset) ==
    LET all == Ordered(Unprocessed(table))
    IN SubSeq(all, offset + 1, Min(Len(all), offset + batch_size))

\* a bug: the row is marked before it is validated
RejectedButMarked(s, pk) ==
    [s EXCEPT !.stats = Bump(@, "errors"),
              !.objs = SetCur(@, pk, [@[pk].cur EXCEPT !.is_processed = TRUE])]

\* a record that failed: "stats['errors'] += 1; continue", is_processed
\* stays False
Rejected(s, pk) == [s EXCEPT !.stats = Bump(@, "errors")]

\* One iteration of the loop of DataNormalizer._process_batch: raw row pk
\* of the batch against the committed processed_data.
ProcessRecord(s, ptable, pk) ==
    LET raw_record == s.objs[pk].cur
        failed == Rejected(s, pk)
        normalized_fields == _normalize_record(raw_record.data.fields)
        found == Matching(ptable, raw_record.inner_id)
        ppk == TheOne(found)
        pobjs == Load(s.pobjs, ptable, ppk)
        marked == SetCur(s.objs, pk, [raw_record EXCEPT !.is_processed = TRUE])
    IN  IF IsNull(raw_record.data)
        THEN failed
        ELSE IF ~_validate_normalized_data(raw_record.inner_id, normalized_fields)
        THEN failed
        ELSE IF Cardinality(found) > 1
        THEN \* scalar_one_or_none raises MultipleResultsFound
             failed
        ELSE IF found # {}
        THEN [s EXCEPT
                !.pobjs = SetCur(pobjs, ppk,
                    [pobjs[ppk].cur EXCEPT !.year = normalized_fields.year,
                                           !.active_status = raw_record.active_status]),
                !.objs = marked,
                !.stats = Bump(Bump(@, "updated"), "processed")]
        ELSE [s EXCEPT
                !.ppending = Append(@, ProcessedData(raw_record.inner_id,
                                                    raw_record.active_status,
                                                    normalized_fields)),
                !.objs = marked,
                !.stats = Bump(Bump(@, "created"), "processed")]

RECURSIVE ProcessRecords(_, _, _)
ProcessRecords(s, ptable, records) ==
    IF records = <<>> THEN s
    ELSE ProcessRecords(ProcessRecord(s, ptable, Head(records)), ptable, Tail(records))

\* ------------------------------------------------------------------- state
VARIABLES
    raw_data,        \* committed rows of table raw_data, by primary key
    processed_data,  \* committed rows of table processed_data
    sync_state,      \* committed rows of table sync_state
    lock_files,      \* tmp/<name>.lock: the PID written in it, 0 when absent
    clock,           \* datetime.utcnow(), advanced by every page request
    runs,            \* scripts started so far
    served,          \* records the upstream API has served so far
    active,          \* the operating-system processes that exist
    call,            \* a function called on its own: arguments, locals, result
    pc,              \* where each process is in its script
    script,          \* the script a process runs
    upd,             \* locals of DailyUpdater.update
    ldr,             \* locals of InitialLoader.load
    nrm,             \* locals of DataNormalizer.normalize
    sess             \* the open AsyncSession of each process

vars == <<raw_data, processed_data, sync_state, lock_files, clock, runs, served, active,
          call, pc, script, upd, ldr, nrm, sess>>

\* what no step of a script changes
env == <<active, call>>

\* what a function called on its own does not touch
program == <<raw_data, processed_data, sync_state, lock_files, clock, runs, served, active,
             pc, script, upd, ldr, nrm, sess>>

db == <<raw_data, processed_data, sync_state>>

LockNames == {"initial_load", "daily_update"}
Scripts == {"initial_load", "daily_update", "normalize"}

NoScript == "none"

ZeroUpdateStats == [dates_processed |-> 0, total_loaded |-> 0, total_updated |-> 0,
                    total_removed |-> 0, total_errors |-> 0, total_duplicates |-> 0]

\* raised, walked, served_cursor and sync_before are history fields: the
\* call of the run that raised (NotRaised when none did), whether the walk
\* ran to a null next_change_id, the cur_change_id of the last page, and
\* sync_state as the run found it; requested is the change_id of the last
\* get_changes request and next_change_id the local of that name; logged
\* holds the status of every row this run of update() added to
\* operations_log; fetch_failed (get_changes raised) and exit_code (what
\* main returned, None before) outlive update() until the process is gone
NotRaised == "no"

NoUpdate == [process_date |-> 1, current_change_id |-> None, last_change_id |-> None,
             stats |-> ZeroUpdateStats,
             raised |-> NotRaised, walked |-> FALSE, served_cursor |-> None,
             sync_before |-> <<>>, requested |-> None, next_change_id |-> None,
             logged |-> <<>>, fetch_failed |-> FALSE, exit_code |-> None]

\* finish_operation(status): one row of operations_log, committed in a
\* session of its own. errors_count > 0 turns "OK" into "ERROR", and
\* update() passes "ERROR" itself whenever it has called record_error.
finish_operation(u, status) == [u EXCEPT !.logged = Append(@, status)]

NoLoad == [page |-> 1, next_page |-> None,
           stats |-> [total_loaded |-> 0, total_errors |-> 0, total_pages |-> 0,
                      total_skipped |-> 0]]

ZeroNormStats == [total_processed |-> 0, total_created |-> 0, total_updated |-> 0,
                  total_errors |-> 0, total_batches |-> 0]

\* commit_failed, all_valid and marked are history fields: whether a batch
\* commit of the pass failed, whether every row that was unprocessed when
\* the pass began could be normalised, and the number of rows whose
\* is_processed the commits of the pass turned TRUE
NoNormalize == [batch_size |-> 1, limit |-> None, offset |-> 0, stats |-> ZeroNormStats,
                commit_failed |-> FALSE, all_valid |-> FALSE, marked |-> 0]

NoCall == [fn |-> "none"]

\* no script running, over a database whose raw_data holds rows that no
\* pass has normalised
Idle(processes, rows) ==
    /\ raw_data = rows
    /\ processed_data = <<>>
    /\ sync_state = <<>>
    /\ lock_files = [n \in LockNames |-> 0]
    /\ clock = 0
    /\ runs = 0
    /\ served = 0
    /\ active = processes
    /\ pc = [p \in Procs |-> "idle"]
    /\ script = [p \in Procs |-> NoScript]
    /\ upd = [p \in Procs |-> NoUpdate]
    /\ ldr = [p \in Procs |-> NoLoad]
    /\ nrm = [p \in Procs |-> NoNormalize]
    /\ sess = [p \in Procs |-> NoSession]

\* an empty database and no script running
Boot(processes) == Idle(processes, <<>>)

InitWith(processes) == Boot(processes) /\ call = NoCall

\* one worker at a time
Init == InitWith({1})

\* every process may run a script at the same time
InitConcurrent == InitWith(Procs)

\* ------------------------------------------------------------ entry points
\* python scripts/<name>.py; its arguments are drawn where they are read
StartScript(p, name) ==
    /\ p \in active
    /\ pc[p] = "idle"
    /\ runs < MaxRuns
    /\ runs' = runs + 1
    /\ script' = [script EXCEPT ![p] = name]
    /\ pc' = [pc EXCEPT ![p] = IF name = "normalize" THEN "normalize" ELSE "acquire"]
    /\ UNCHANGED <<db, lock_files, clock, served, env, upd, ldr, nrm, sess>>

Start(p) == \E name \in Scripts : StartScript(p, name)

\* python scripts/daily_update.py
StartDailyUpdate(p) == StartScript(p, "daily_update")

\* sys.exit: the process and its memory are gone
Exit(p) ==
    /\ pc' = [pc EXCEPT ![p] = "idle"]
    /\ script' = [script EXCEPT ![p] = NoScript]
    /\ upd' = [upd EXCEPT ![p] = NoUpdate]
    /\ ldr' = [ldr EXCEPT ![p] = NoLoad]
    /\ nrm' = [nrm EXCEPT ![p] = NoNormalize]

\* os.kill(pid, 0): the process whose PID the lock file holds still runs
Alive(pid) == pid \in Procs /\ pc[pid] # "idle"

\* SingleInstanceLock.acquire
acquire(lock_name) == ~(lock_files[lock_name] # 0 /\ Alive(lock_files[lock_name]))

\* "with SingleInstance(name):" -- __enter__ exits the process when acquire
\* returns False, else the lock file holds this PID
Acquire(p) ==
    /\ pc[p] = "acquire"
    /\ IF acquire(script[p])
       THEN /\ lock_files' = [lock_files EXCEPT ![script[p]] = p]
            /\ pc' = [pc EXCEPT ![p] = IF script[p] = "initial_load"
                                       THEN "load" ELSE "update"]
            /\ UNCHANGED <<script, upd, ldr, nrm>>
       ELSE /\ Exit(p)
            /\ UNCHANGED lock_files
    /\ UNCHANGED <<db, clock, runs, served, env, sess>>

\* SingleInstanceLock.release, from __exit__
Release(p) ==
    /\ pc[p] = "release"
    /\ lock_files' = [lock_files EXCEPT ![script[p]] = 0]
    /\ Exit(p)
    /\ UNCHANGED <<db, clock, runs, served, env, sess>>

\* ------------------------------------------------------------ daily update
\* a bug: the date of the watermark itself is walked again
AlreadyProcessedStrict(rows, process_date) ==
    Len(rows) = 1 /\ rows[1].last_successful_date > process_date

\* a bug: no gate, every target date is walked
NeverProcessed(rows, process_date) == FALSE

\* "if sync_state and sync_state.last_successful_date >= process_date"
AlreadyProcessed(rows, process_date) ==
    Len(rows) = 1 /\ rows[1].last_successful_date >= process_date

\* update(), up to the check of the watermark; process_date is --start-date
\* or yesterday
UpdateStart(p) ==
    /\ pc[p] = "update"
    /\ \E process_date \in Dates :
          /\ LET u == [NoUpdate EXCEPT !.process_date = process_date,
                                       !.sync_before = sync_state]
             IN upd' = [upd EXCEPT ![p] =
                   IF Len(sync_state) > 1
                   THEN [finish_operation(u, "ERROR") EXCEPT !.raised = "_get_sync_state",
                                                             !.exit_code = 1]
                   ELSE IF AlreadyProcessed(sync_state, process_date)
                   THEN finish_operation(u, "OK")
                   ELSE u]
          /\ pc' = [pc EXCEPT ![p] =
                IF Len(sync_state) > 1 THEN "release"  \* scalar_one_or_none raises
                ELSE IF AlreadyProcessed(sync_state, process_date) THEN "updated"
                ELSE "get_change_id"]
    /\ UNCHANGED <<db, lock_files, clock, runs, served, env, script, ldr, nrm, sess>>

\* client.get_change_id(process_date): a cursor of the upstream API, nothing,
\* or an exception
GetChangeIdFrom(p, cursors) ==
    /\ pc[p] = "get_change_id"
    /\ \/ /\ upd' = [upd EXCEPT ![p] =
                   finish_operation([@ EXCEPT !.stats = Bump(@, "total_errors"),
                                              !.raised = "get_change_id"], "ERROR")]
          /\ pc' = [pc EXCEPT ![p] = "updated"]
       \/ \E change_id_response \in {None} \cup cursors :
             IF change_id_response = None \/ change_id_response = 0
             THEN /\ pc' = [pc EXCEPT ![p] = "updated"]
                  /\ upd' = [upd EXCEPT ![p] = finish_operation(@, "OK")]
             ELSE /\ clock < MaxClock
                  /\ upd' = [upd EXCEPT ![p].current_change_id = change_id_response]
                  /\ pc' = [pc EXCEPT ![p] = "get_changes"]
    /\ UNCHANGED <<db, lock_files, clock, runs, served, env, script, ldr, nrm, sess>>

GetChangeId(p) == GetChangeIdFrom(p, Cursors)

\* the meta of a response of get_changes; the walk is cut by the bound on
\* the number of requests
MetasOf(cursors) == [next_change_id : {None} \cup cursors, cur_change_id : {None} \cup cursors]

Metas == MetasOf(Cursors)

\* one request of client.get_changes(current_change_id): the exception or
\* the response (its result is read record by record, its meta after that)
GetChanges(p) ==
    /\ pc[p] = "get_changes"
    /\ clock < MaxClock
    /\ clock' = clock + 1
    /\ \/ /\ upd' = [upd EXCEPT ![p].stats = Bump(@, "total_errors"),
                                ![p].raised = "get_changes",
                                ![p].fetch_failed = TRUE,
                                ![p].requested = upd[p].current_change_id]
          /\ pc' = [pc EXCEPT ![p] = "finish_update"]
          /\ UNCHANGED sess
       \/ /\ sess' = [sess EXCEPT ![p] = OpenSession(clock')]
          /\ upd' = [upd EXCEPT ![p].requested = upd[p].current_change_id]
          /\ pc' = [pc EXCEPT ![p] = "save_changes"]
    /\ UNCHANGED <<db, lock_files, runs, served, env, script, ldr, nrm>>

\* The program only compares external ids for equality, so the upstream
\* API names the ids it has not served before in the order "a", "b".
Introduced ==
    {raw_data[i].inner_id : i \in 1..Len(raw_data)}
    \cup UNION {{sess[q].pending[i].inner_id : i \in 1..Len(sess[q].pending)} : q \in Procs}

Servable ==
    {NoId} \cup Introduced
    \cup (IF "a" \notin Introduced THEN {"a"} ELSE IF "b" \notin Introduced THEN {"b"} ELSE {})

\* _save_changes: the next record of the page
SaveChangesRecord(p) ==
    /\ pc[p] = "save_changes"
    /\ served < MaxRecords
    /\ served' = served + 1
    /\ \E record \in {r \in ChangeRecords : r.inner_id \in Servable} :
          sess' = [sess EXCEPT ![p] = SaveChange(@, raw_data, record, "daily_update")]
    /\ UNCHANGED <<db, lock_files, clock, runs, env, pc, script, upd, ldr, nrm>>

AddPageStats(stats, page_stats) ==
    [stats EXCEPT !.total_loaded = @ + page_stats.loaded,
                  !.total_updated = @ + page_stats.updated,
                  !.total_removed = @ + page_stats.removed,
                  !.total_errors = @ + page_stats.errors,
                  !.total_duplicates = @ + page_stats.duplicates]

\* update() after a page was applied: last_change_id, then the next cursor
AfterPage(u, meta, page_stats) ==
    [u EXCEPT !.stats = AddPageStats(@, page_stats),
              !.last_change_id = IF meta.cur_change_id # None /\ meta.cur_change_id # 0
                                 THEN meta.cur_change_id ELSE u.current_change_id,
              !.served_cursor = meta.cur_change_id,
              !.walked = (meta.next_change_id = None),
              !.next_change_id = meta.next_change_id,
              !.current_change_id = IF meta.next_change_id = None
                                    THEN @ ELSE meta.next_change_id]

\* a bug: the walk stops after its first page
NextRequestBreaks(meta) == "finish_update"

\* "if next_change_id is None: break"
NextRequest(meta) == IF meta.next_change_id = None THEN "finish_update" ELSE "get_changes"

\* session.commit() of a page: everything the session holds, or an exception
CommitPage(table, s, ok) == ok /\ UniqueInnerId(table, s.pending)

\* the end of _save_changes for a page with records, and the rest of the
\* loop body of update()
SaveChangesCommitFrom(p, cursors) ==
    /\ pc[p] = "save_changes"
    /\ sess[p].count > 0
    /\ \E ok \in BOOLEAN :
          LET committed == CommitPage(raw_data, sess[p], ok)
              flushed == FlushAll(raw_data, sess[p].objs, sess[p].pending, clock)
          IN /\ raw_data' = Commit(raw_data, flushed, committed)
             /\ IF committed
                THEN \E meta \in MetasOf(cursors) :
                        /\ meta.next_change_id # None => clock < MaxClock
                        /\ upd' = [upd EXCEPT ![p] = AfterPage(@, meta, sess[p].stats)]
                        /\ pc' = [pc EXCEPT ![p] = NextRequest(meta)]
                ELSE /\ upd' = [upd EXCEPT ![p].stats = Bump(@, "total_errors"),
                                           ![p].raised = "_save_changes"]
                     /\ pc' = [pc EXCEPT ![p] = "finish_update"]
    /\ sess' = [sess EXCEPT ![p] = NoSession]
    /\ UNCHANGED <<processed_data, sync_state, lock_files, clock, runs, served, env, script,
                   ldr, nrm>>

SaveChangesCommit(p) == SaveChangesCommitFrom(p, Cursors)

\* "if result:" is false: the page is not saved
EmptyChangesFrom(p, cursors) ==
    /\ pc[p] = "save_changes"
    /\ sess[p].count = 0
    /\ \E meta \in MetasOf(cursors) :
          /\ meta.next_change_id # None => clock < MaxClock
          /\ upd' = [upd EXCEPT ![p] = AfterPage(@, meta, ZeroPageStats)]
          /\ pc' = [pc EXCEPT ![p] = NextRequest(meta)]
    /\ sess' = [sess EXCEPT ![p] = NoSession]
    /\ UNCHANGED <<db, lock_files, clock, runs, served, env, script, ldr, nrm>>

EmptyChanges(p) == EmptyChangesFrom(p, Cursors)

\* a bug: the watermark is written whatever the walk met
AdvanceWatermarkAlways(stats) == TRUE

\* "if stats['total_errors'] == 0:"
AdvanceWatermark(stats) == stats.total_errors = 0

\* a bug: every successful run inserts a row
InsertSyncState(rows, process_date, last_change_id) ==
    Append(rows, SyncState(process_date, last_change_id))

\* _update_sync_state on the rows of sync_state
_update_sync_state(rows, process_date, last_change_id) ==
    IF rows # <<>>
    THEN [rows EXCEPT ![1] = SyncState(process_date, last_change_id)]
    ELSE <<SyncState(process_date, last_change_id)>>

\* a bug: the row of operations_log says "OK" whatever the run met
StatusAlwaysOk(stats) == "OK"

\* '"ERROR" if stats['total_errors'] > 0 else "OK"'
FinalStatus(stats) == IF stats.total_errors > 0 THEN "ERROR" ELSE "OK"

\* update() after the loop: the watermark, the row of operations_log, then
\* return stats (or raise when the watermark cannot be written)
FinishUpdate(p) ==
    /\ pc[p] = "finish_update"
    /\ IF AdvanceWatermark(upd[p].stats)
       THEN \E ok \in BOOLEAN :
               IF ok /\ Len(sync_state) <= 1
               THEN /\ sync_state' = _update_sync_state(sync_state, upd[p].process_date,
                                                        upd[p].last_change_id)
                    /\ upd' = [upd EXCEPT ![p] =
                          finish_operation([@ EXCEPT !.stats.dates_processed = 1],
                                           FinalStatus(upd[p].stats))]
                    /\ pc' = [pc EXCEPT ![p] = "updated"]
               ELSE /\ upd' = [upd EXCEPT ![p] =
                          [finish_operation(@, "ERROR") EXCEPT !.raised = "_update_sync_state",
                                                               !.exit_code = 1]]
                    /\ pc' = [pc EXCEPT ![p] = "release"]
                    /\ UNCHANGED sync_state
       ELSE /\ pc' = [pc EXCEPT ![p] = "updated"]
            /\ upd' = [upd EXCEPT ![p] = finish_operation(@, FinalStatus(upd[p].stats))]
            /\ UNCHANGED sync_state
    /\ UNCHANGED <<raw_data, processed_data, lock_files, clock, runs, served, env, script, ldr, nrm, sess>>

\* scripts/daily_update.py after update() returned
update_successful(stats) ==
    \/ stats.total_errors = 0
    \/ stats.total_loaded + stats.total_updated + stats.total_removed > 0

\* main() when it does not normalise: "elif args.skip_normalization:" falls
\* through to "return 0", "elif not update_successful: return 1"
ExitWithoutNormalization(skip_normalization) == IF skip_normalization THEN 0 ELSE 1

PostUpdateWith(p, flags) ==
    /\ pc[p] = "updated"
    /\ \E skip_normalization \in flags :
          IF update_successful(upd[p].stats) /\ ~skip_normalization
          THEN /\ pc' = [pc EXCEPT ![p] = "normalize"]
               /\ upd' = [upd EXCEPT ![p] =
                     [NoUpdate EXCEPT !.fetch_failed = upd[p].fetch_failed]]
          ELSE /\ pc' = [pc EXCEPT ![p] = "release"]
               /\ upd' = [upd EXCEPT ![p] =
                     [NoUpdate EXCEPT !.fetch_failed = upd[p].fetch_failed,
                                      !.exit_code =
                                          ExitWithoutNormalization(skip_normalization)]]
    /\ UNCHANGED <<db, lock_files, clock, runs, served, env, script, ldr, nrm, sess>>

PostUpdate(p) == PostUpdateWith(p, BOOLEAN)

\* ----------------------------------------------------------- normalisation
\* DataNormalizer(batch_size) and normalize(limit), up to the loop; only
\* scripts/normalize.py passes a limit
NormalizeStart(p) ==
    /\ pc[p] = "normalize"
    /\ \E batch_size \in BatchSizes,
          limit \in IF script[p] = "normalize" THEN Limits ELSE {None} :
          nrm' = [nrm EXCEPT ![p] =
              [NoNormalize EXCEPT !.batch_size = batch_size,
                                  !.limit = limit,
                                  !.all_valid = \A i \in Unprocessed(raw_data) :
                                                   Normalizable(raw_data[i])]]
    /\ pc' = [pc EXCEPT ![p] = IF Unprocessed(raw_data) = {} THEN "normalized"
                               ELSE "process_batch"]
    /\ UNCHANGED <<db, lock_files, clock, runs, served, env, script, upd, ldr, sess>>

HasLimit(limit) == limit # None /\ limit # 0

\* "if limit and stats['total_processed'] >= limit: break"
LimitReached(n) == HasLimit(n.limit) /\ n.stats.total_processed >= n.limit

\* a bug: the last batch is not shrunk to the rest of the limit
BatchSizeWhole(n) == n.batch_size

\* the batch size of this iteration: the rest of the limit when that is less
BatchSize(n) ==
    LET remaining == IF HasLimit(n.limit) THEN n.limit - n.stats.total_processed ELSE None
    IN IF remaining # None /\ remaining # 0 /\ remaining < n.batch_size
       THEN remaining ELSE n.batch_size

\* the head of the loop of normalize() and _process_batch up to its commit
ProcessBatch(p) ==
    /\ pc[p] = "process_batch"
    /\ LET records == SelectBatch(raw_data, BatchSize(nrm[p]), nrm[p].offset)
           loaded == [NoSession EXCEPT
                        !.stats = ZeroBatchStats,
                        !.records = records,
                        !.objs = [pk \in Range(records) |-> Loaded(raw_data[pk])]]
       IN IF LimitReached(nrm[p]) \/ records = <<>>
          THEN /\ pc' = [pc EXCEPT ![p] = "normalized"]
               /\ UNCHANGED sess
          ELSE /\ sess' = [sess EXCEPT ![p] = ProcessRecords(loaded, processed_data, records)]
               /\ pc' = [pc EXCEPT ![p] = "commit_batch"]
    /\ UNCHANGED <<db, lock_files, clock, runs, served, env, script, upd, ldr, nrm>>

\* _process_batch when its commit raised: the batch counts as errors only
CommitFailed(stats, records) ==
    [stats EXCEPT !.errors = @ + Len(records), !.processed = 0, !.created = 0, !.updated = 0]

\* "if batch_stats['processed'] == 0: break", else the totals and the offset
AfterBatch(n, batch_stats) ==
    IF batch_stats.processed = 0 THEN n
    ELSE [n EXCEPT !.stats = [@ EXCEPT !.total_processed = @ + batch_stats.processed,
                                       !.total_created = @ + batch_stats.created,
                                       !.total_updated = @ + batch_stats.updated,
                                       !.total_errors = @ + batch_stats.errors,
                                       !.total_batches = @ + 1],
                   !.offset = @ + n.batch_size]

\* the commit of _process_batch, which succeeds or raises as outcomes allows,
\* and the rest of the loop body of normalize()
CommitBatchWith(p, outcomes) ==
    /\ pc[p] = "commit_batch"
    /\ \E ok \in outcomes :
          LET batch_stats == IF ok THEN sess[p].stats
                             ELSE CommitFailed(sess[p].stats, sess[p].records)
          IN /\ raw_data' = Commit(raw_data, FlushAll(raw_data, sess[p].objs, <<>>, clock), ok)
             /\ processed_data' = Commit(processed_data,
                                         FlushAll(processed_data, sess[p].pobjs,
                                                  sess[p].ppending, clock), ok)
             /\ nrm' = [nrm EXCEPT ![p] = [AfterBatch(@, batch_stats) EXCEPT
                                              !.commit_failed = @ \/ ~ok,
                                              !.marked = @ + Cardinality(
                                                  {i \in 1..Len(raw_data) :
                                                      /\ ~raw_data[i].is_processed
                                                      /\ raw_data'[i].is_processed})]]
             /\ pc' = [pc EXCEPT ![p] = IF batch_stats.processed = 0
                                        THEN "normalized" ELSE "process_batch"]
    /\ sess' = [sess EXCEPT ![p] = NoSession]
    /\ UNCHANGED <<sync_state, lock_files, clock, runs, served, env, script, upd, ldr>>

CommitBatch(p) == CommitBatchWith(p, BOOLEAN)

\* normalize() returned to its script; daily_update.py returns 1 when the
\* pass had errors
PostNormalize(p) ==
    /\ pc[p] = "normalized"
    /\ IF script[p] = "normalize"
       THEN Exit(p)
       ELSE /\ pc' = [pc EXCEPT ![p] = "release"]
            /\ nrm' = [nrm EXCEPT ![p] = NoNormalize]
            /\ upd' = [upd EXCEPT ![p].exit_code =
                                     IF nrm[p].stats.total_errors > 0 THEN 1 ELSE 0]
            /\ UNCHANGED <<script, ldr>>
    /\ UNCHANGED <<db, lock_files, clock, runs, served, env, sess>>

\* --------------------------------------------------------------- bulk load
\* "page += 1" after an error, and the stop after too many errors
AfterLoadError(l) ==
    [l EXCEPT !.stats = Bump(@, "total_errors"), !.page = @ + 1]

\* one request of client.get_offers(page): the exception, or the meta of the
\* response (its result is read record by record)
LoadPage(p) ==
    /\ pc[p] = "load"
    /\ IF clock < MaxClock
       THEN /\ clock' = clock + 1
            /\ \/ /\ ldr' = [ldr EXCEPT ![p] = AfterLoadError(@)]
                  /\ pc' = [pc EXCEPT ![p] =
                        IF ldr'[p].stats.total_errors > MaxLoadErrors THEN "release" ELSE "load"]
                  /\ UNCHANGED sess
               \/ \E next_page \in {None, ldr[p].page + 1} :
                     /\ ldr' = [ldr EXCEPT ![p].next_page = next_page]
                     /\ sess' = [sess EXCEPT ![p] = [OpenSession(clock') EXCEPT
                                                        !.stats = ZeroLoadStats]]
                     /\ pc' = [pc EXCEPT ![p] = "save_page"]
       ELSE \* the listing has ended: an empty result
            /\ pc' = [pc EXCEPT ![p] = "release"]
            /\ UNCHANGED <<clock, ldr, sess>>
    /\ UNCHANGED <<db, lock_files, runs, served, env, script, upd, nrm>>

\* _save_page: the next record of the page
SavePageStep(p) ==
    /\ pc[p] = "save_page"
    /\ served < MaxRecords
    /\ served' = served + 1
    /\ \E record \in {r \in Offers : r.inner_id \in Servable} :
          sess' = [sess EXCEPT ![p] = SavePageRecord(@, raw_data, record, "initial_load")]
    /\ UNCHANGED <<db, lock_files, clock, runs, env, pc, script, upd, ldr, nrm>>

\* the end of _save_page for a page with records, and the rest of the loop
\* body of load()
SavePageCommit(p) ==
    /\ pc[p] = "save_page"
    /\ sess[p].count > 0
    /\ \E ok \in BOOLEAN :
          IF CommitPage(raw_data, sess[p], ok)
          THEN /\ raw_data' = Commit(raw_data,
                                     FlushAll(raw_data, sess[p].objs, sess[p].pending, clock),
                                     TRUE)
               /\ ldr' = [ldr EXCEPT ![p].stats = [@ EXCEPT
                                        !.total_loaded = @ + sess[p].stats.loaded,
                                        !.total_skipped = @ + sess[p].stats.skipped,
                                        !.total_pages = @ + 1],
                                     ![p].page = IF ldr[p].next_page = None THEN @
                                                 ELSE ldr[p].next_page]
               /\ pc' = [pc EXCEPT ![p] = IF ldr[p].next_page = None THEN "release" ELSE "load"]
          ELSE /\ ldr' = [ldr EXCEPT ![p] = AfterLoadError(@)]
               /\ pc' = [pc EXCEPT ![p] =
                     IF ldr'[p].stats.total_errors > MaxLoadErrors THEN "release" ELSE "load"]
               /\ UNCHANGED raw_data
    /\ sess' = [sess EXCEPT ![p] = NoSession]
    /\ UNCHANGED <<processed_data, sync_state, lock_files, clock, runs, served, env, script, upd, nrm>>

\* "if not result:" -- the load ends
EmptyPage(p) ==
    /\ pc[p] = "save_page"
    /\ sess[p].count = 0
    /\ pc' = [pc EXCEPT ![p] = "release"]
    /\ sess' = [sess EXCEPT ![p] = NoSession]
    /\ UNCHANGED <<db, lock_files, clock, runs, served, env, script, upd, ldr, nrm>>

\* ------------------------------------------------------------ specification
Step(p) ==
    \/ Start(p)
    \/ Acquire(p)
    \/ Release(p)
    \/ UpdateStart(p)
    \/ GetChangeId(p)
    \/ GetChanges(p)
    \/ SaveChangesRecord(p)
    \/ SaveChangesCommit(p)
    \/ EmptyChanges(p)
    \/ FinishUpdate(p)
    \/ PostUpdate(p)
    \/ NormalizeStart(p)
    \/ ProcessBatch(p)
    \/ CommitBatch(p)
    \/ PostNormalize(p)
    \/ LoadPage(p)
    \/ SavePageStep(p)
    \/ SavePageCommit(p)
    \/ EmptyPage(p)

Next == \E p \in Procs : Step(p)

Spec == Init /\ [][Next]_vars

SpecConcurrent == InitConcurrent /\ [][Next]_vars

\* SIGINT while update() waits for a request or a commit: KeyboardInterrupt
\* or CancelledError is no Exception, so no handler of update() runs; the
\* open session is closed, main returns 1 (or the interpreter ends) and
\* __exit__ releases the lock
InterruptUpdate(p) ==
    /\ pc[p] \in {"get_change_id", "get_changes", "save_changes", "finish_update"}
    /\ pc' = [pc EXCEPT ![p] = "release"]
    /\ upd' = [upd EXCEPT ![p].raised = "KeyboardInterrupt", ![p].exit_code = 1]
    /\ sess' = [sess EXCEPT ![p] = NoSession]
    /\ UNCHANGED <<db, lock_files, clock, runs, served, env, script, ldr, nrm>>

NextInterrupt == \E p \in Procs : Step(p) \/ InterruptUpdate(p)

\* one worker at a time, which the operator may interrupt
SpecInterrupt == Init /\ [][NextInterrupt]_vars

\* "daily_update.py --skip-normalization" alone, over an upstream API with
\* more than one cursor; the one process runs its script on, so its steps
\* are weakly fair
StepWalk(p) ==
    \/ StartDailyUpdate(p)
    \/ Acquire(p)
    \/ Release(p)
    \/ UpdateStart(p)
    \/ GetChangeIdFrom(p, WalkCursors)
    \/ GetChanges(p)
    \/ SaveChangesRecord(p)
    \/ SaveChangesCommitFrom(p, WalkCursors)
    \/ EmptyChangesFrom(p, WalkCursors)
    \/ FinishUpdate(p)
    \/ PostUpdateWith(p, {TRUE})

NextWalk == \E p \in Procs : StepWalk(p)

SpecWalk == Init /\ [][NextWalk]_vars /\ WF_vars(NextWalk)

\* ------------------------------------------- merge_json called on its own
\* Python objects are references: heap maps a reference to the dict it
\* holds, and dict.copy() allocates
Copy(heap, ref) ==
    LET new == Cardinality(DOMAIN heap) + 1
    IN [heap |-> [r \in DOMAIN heap \cup {new} |-> IF r = new THEN heap[ref] ELSE heap[r]],
        ref |-> new]

\* the dicts over some keys and values
Dicts(keys, values) == UNION {[d -> values] : d \in SUBSET keys}

Perms(S) == {f \in [1..Cardinality(S) -> S] : \A i, j \in DOMAIN f : f[i] = f[j] => i = j}

\* the JSON objects over some keys and values, members in any order
ItemsOver(keys, values) ==
    UNION {{[i \in DOMAIN order |-> <<order[i], d[order[i]]>>] : order \in Perms(DOMAIN d)}
           : d \in Dicts(keys, values)}

ExistingKeys == {<<"year">>, <<"price">>, <<"new_", "year">>}
DeltaKeys == {<<"new_">> \o k : k \in ExistingKeys}

\* merge_json(existing_data, new_data) is about to run on a stored payload
\* and an incoming payload of delta keys only
InitMerge ==
    /\ Boot({})
    /\ \E existing_data \in Dicts(ExistingKeys, {1, 2}), new_data \in ItemsOver(DeltaKeys, {2, 3}) :
          call = [fn |-> "merge_json", heap |-> <<existing_data>>, existing_data |-> 1,
                  new_data |-> new_data, merged |-> None, argument |-> existing_data]

\* merge_json from "merged = existing_data.copy()" to "return merged"
MergeJson ==
    /\ call.fn = "merge_json"
    /\ call.merged = None
    /\ LET copied == Copy(call.heap, call.existing_data)
       IN call' = [call EXCEPT
                     !.heap = [copied.heap EXCEPT
                                 ![copied.ref] = merge_json(copied.heap[copied.ref],
                                                            call.new_data)],
                     !.merged = copied.ref]
    /\ UNCHANGED program

SpecMerge == InitMerge /\ [][MergeJson]_vars

\* --------------------------------------- _save_changes called on a page twice
RECURSIVE SaveChanges(_, _, _, _)
\* the loop of _save_changes over the records of a page
SaveChanges(s, table, records, source) ==
    IF records = <<>> THEN s
    ELSE SaveChanges(SaveChange(s, table, Head(records), source), table, Tail(records), source)

\* the pages of change records of the upstream API
Pages == UNION {[1..n -> ChangeRecords] : n \in 1..MaxRecords}

\* the raw stores a page meets: empty, or the row of an offer loaded before
Stores ==
    {<<>>,
     <<RawData("a", "added", Stored(JItems(<< << <<"year">>, JInt(2019) >> >>)), 0,
               "initial_load", 0)>>}

\* a page is about to be applied, and applied again
InitReplay ==
    /\ Boot({})
    /\ \E records \in Pages, table \in Stores :
          call = [fn |-> "_save_changes", records |-> records, table |-> table,
                  applied |-> <<>>]

\* _save_changes(records), whole: the loop, the commit and the table it
\* leaves; applied keeps the table after each call that committed
SaveChangesCall ==
    /\ call.fn = "_save_changes"
    /\ Len(call.applied) < 2
    /\ \E ok \in BOOLEAN :
          LET now == Len(call.applied) + 1
              s == SaveChanges(OpenSession(now), call.table, call.records, "daily_update")
              committed == CommitPage(call.table, s, ok)
              table == Commit(call.table, FlushAll(call.table, s.objs, s.pending, now),
                              committed)
          IN call' = [call EXCEPT !.table = table,
                                  !.applied = IF committed THEN Append(@, table) ELSE @]
    /\ UNCHANGED program

SpecReplay == InitReplay /\ [][SaveChangesCall]_vars

\* --------------------------------- _process_batch called on a batch of one
\* str(n) of a natural number
DigitChar == <<"0", "1", "2", "3", "4", "5", "6", "7", "8", "9">>

RECURSIVE Str(_)
Str(n) == IF n < 10 THEN <<DigitChar[n + 1]>> ELSE Str(n \div 10) \o <<DigitChar[(n % 10) + 1]>>

\* the years a payload carries: numbers and strings around the two ends of
\* the range, zero, and strings with other characters or none
YearNumbers == {0, 1, MinYear - 1, MinYear, 2019, CurrentYear + 1, CurrentYear + 2}

YearValues ==
    {JInt(n) : n \in YearNumbers}
    \cup {JStr(Str(n)) : n \in YearNumbers}
    \cup {JStr(Str(n) \o <<"x">>) : n \in YearNumbers}
    \cup {JStr(<<>>), JStr(<<"x">>)}

\* a batch of one unprocessed row, with or without a row of processed_data
InitYear ==
    /\ Boot({})
    /\ \E fields \in {EmptyDict} \cup {<<"year">> :> v : v \in YearValues},
          active_status \in {0, 1},
          processed \in {<<>>, <<ProcessedData("a", 0, [year |-> 2019])>>} :
          call = [fn |-> "_process_batch",
                  raw |-> <<RawData("a", "added", JObject(fields), 0, "daily_update",
                                    active_status)>>,
                  processed |-> processed, before |-> processed,
                  normalized |-> _normalize_record(EmptyDict), stats |-> ZeroBatchStats,
                  committed |-> FALSE, returned |-> FALSE]

\* _process_batch, whole, on the batch of the one row; normalized is the
\* dict _normalize_record returned for it
ProcessBatchCall ==
    /\ call.fn = "_process_batch"
    /\ ~call.returned
    /\ \E ok \in BOOLEAN :
          LET records == SelectBatch(call.raw, 1, 0)
              loaded == [NoSession EXCEPT
                           !.stats = ZeroBatchStats,
                           !.records = records,
                           !.objs = [pk \in Range(records) |-> Loaded(call.raw[pk])]]
              s == ProcessRecords(loaded, call.processed, records)
          IN call' = [call EXCEPT
                        !.normalized = _normalize_record(call.raw[1].data.fields),
                        !.stats = IF ok THEN s.stats ELSE CommitFailed(s.stats, records),
                        !.raw = Commit(@, FlushAll(@, s.objs, <<>>, 1), ok),
                        !.processed = Commit(@, FlushAll(@, s.pobjs, s.ppending, 1), ok),
                        !.committed = ok,
                        !.returned = TRUE]
    /\ UNCHANGED program

SpecYear == InitYear /\ [][ProcessBatchCall]_vars

\* ------------------------------------------------ retry_sync, retry_async
\* the settings a caller or the configuration gives; 0 and None are replaced
\* by the configured value, so each is at least 1
MaxAttempts == {1, 2, 3}
IntervalSeconds == {1, 2}
TotalTimeoutSeconds == {2, 4, 9}
\* the seconds one call of func takes
Durations == {0, 1, 3}

\* retry_sync and retry_async run the same statements; time.sleep and
\* asyncio.sleep both return after interval_seconds. on_retry says whether
\* the caller gave a callback. outcomes, waits, slept and observed are
\* history fields: the outcome of every call of func, the number of sleeps,
\* the seconds slept, and every call of on_retry (its arguments, the number
\* of sleeps before it and whether it raised).
InitRetry ==
    /\ Boot({})
    /\ \E fn \in {"retry_sync", "retry_async"}, max_attempts \in MaxAttempts,
          interval_seconds \in IntervalSeconds,
          total_timeout_seconds \in TotalTimeoutSeconds, on_retry \in BOOLEAN :
          call = [fn |-> fn, max_attempts |-> max_attempts,
                  interval_seconds |-> interval_seconds,
                  total_timeout_seconds |-> total_timeout_seconds,
                  on_retry |-> on_retry,
                  at |-> "call", attempt |-> 1, now |-> 0, last_exception |-> None,
                  result |-> None, raised |-> None, elapsed_time |-> None,
                  outcomes |-> <<>>, waits |-> 0, slept |-> 0, observed |-> <<>>]

Retrying == call.fn \in {"retry_sync", "retry_async"}

\* a bug: one attempt more than max_attempts
LastAttemptOffByOne(attempt, max_attempts) == attempt > max_attempts

\* "if attempt >= max_attempts:"
LastAttempt(attempt, max_attempts) == attempt >= max_attempts

\* "if elapsed_time >= total_timeout_seconds:"
TimeoutExceeded(elapsed_time, total_timeout_seconds) == elapsed_time >= total_timeout_seconds

\* one pass of the loop body up to "if on_retry:": func returns its result,
\* or raises and the handler re-raises or goes on to the callback and the
\* sleep; the result and the exception of attempt n are named n
RetryCall ==
    /\ Retrying
    /\ call.at = "call"
    /\ \E duration \in Durations, ok \in BOOLEAN :
          LET now == call.now + duration
              called == [call EXCEPT !.now = now,
                                     !.outcomes = Append(@, IF ok THEN "returned" ELSE "raised")]
          IN IF ok
             THEN call' = [called EXCEPT !.at = "returned", !.result = call.attempt]
             ELSE LET failed == [called EXCEPT !.last_exception = call.attempt,
                                               !.elapsed_time = now]
                  IN IF \/ TimeoutExceeded(now, call.total_timeout_seconds)
                        \/ LastAttempt(call.attempt, call.max_attempts)
                     THEN call' = [failed EXCEPT !.at = "raised", !.raised = call.attempt]
                     ELSE call' = [failed EXCEPT !.at = IF call.on_retry THEN "on_retry"
                                                        ELSE "sleep"]
    /\ UNCHANGED program

\* the exception a callback raises is named 0
CallbackError == 0

\* a bug: the exception of the callback leaves the wrapper
OnRetryPropagates(c, raises) ==
    IF raises THEN [c EXCEPT !.at = "raised", !.raised = CallbackError]
    ELSE [c EXCEPT !.at = "sleep"]

\* "except Exception as callback_error: logger.warning(...)"
AfterOnRetry(c, raises) == [c EXCEPT !.at = "sleep"]

\* "on_retry(attempt, e)", a plain call in both wrappers, which returns or
\* raises
RetryObserve ==
    /\ Retrying
    /\ call.at = "on_retry"
    /\ \E raises \in BOOLEAN :
          call' = AfterOnRetry([call EXCEPT !.observed =
                                   Append(@, [attempt |-> call.attempt,
                                              exception |-> call.last_exception,
                                              waits |-> call.waits,
                                              raised |-> raises])],
                               raises)
    /\ UNCHANGED program

\* the sleep and the next value of the loop variable
RetrySleep ==
    /\ Retrying
    /\ call.at = "sleep"
    /\ call' = [call EXCEPT !.at = "call",
                            !.attempt = @ + 1,
                            !.now = @ + call.interval_seconds,
                            !.waits = @ + 1,
                            !.slept = @ + call.interval_seconds]
    /\ UNCHANGED program

NextRetry == RetryCall \/ RetryObserve \/ RetrySleep

SpecRetry == InitRetry /\ [][NextRetry]_vars

\* ------------------------------------------ normalize() called again and again
\* the payloads of the rows the bulk load left: two that can be normalised
\* and two that cannot
LoadedPayloads == {Stored(d) : d \in Payloads}

\* the raw stores a bulk load left: one or two rows, none processed
LoadedStores ==
    {<<RawData("a", "added", d, 0, "initial_load", 0)>> : d \in LoadedPayloads}
    \cup {<<RawData("a", "added", d, 0, "initial_load", 0),
             RawData("b", "added", e, 0, "initial_load", 0)>> :
              d \in LoadedPayloads, e \in LoadedPayloads}

InitAgain ==
    /\ \E rows \in LoadedStores : Idle({1}, rows)
    /\ call = NoCall

\* "await normalizer.normalize()" with no limit, for the first time or
\* after the pass before has returned; nothing else writes the database
NormalizeAgain(p) ==
    /\ p \in active
    /\ pc[p] \in {"idle", "normalized"}
    /\ pc' = [pc EXCEPT ![p] = "normalize"]
    /\ nrm' = [nrm EXCEPT ![p] = NoNormalize]
    /\ UNCHANGED <<db, lock_files, clock, runs, served, env, script, upd, ldr, sess>>

StepAgain(p) ==
    \/ NormalizeAgain(p)
    \/ NormalizeStart(p)
    \/ ProcessBatch(p)
    \/ CommitBatchWith(p, {TRUE})

NextAgain == \E p \in Procs : StepAgain(p)

\* the caller goes on calling and every commit succeeds
SpecAgain == InitAgain /\ [][NextAgain]_vars /\ WF_vars(NextAgain)

\* ------------------------------------- SingleInstanceLock, statement by statement
\* Two processes enter "with SingleInstance('daily_update'):" and the
\* statements of acquire() and release() (the Unix branch) interleave.
\* call.pid is the local pid of acquire, call.locked the attribute _locked.
\* pc: "acquire" is line 34, "lock_read" 37, "lock_kill" 50,
\* "lock_unlink_stale" 58, "lock_unlink_invalid" 61, "lock_write" 65, "held"
\* the body of the with statement, "lock_release" 79 and "lock_unlink" 81
\* in release() from __exit__, "atexit_release" and "atexit_unlink" the
\* same lines in release() from atexit.
NoLock == [fn |-> "acquire", pid |-> [p \in Procs |-> None],
           locked |-> [p \in Procs |-> FALSE]]

InitLock == Boot(Procs) /\ call = NoLock

\* exists() / read_text() of the lock file of process p
LockFile(p) == lock_files[script[p]]

Goto(p, at) ==
    /\ pc' = [pc EXCEPT ![p] = at]
    /\ UNCHANGED <<script, upd, ldr, nrm>>

\* the process ends: its memory is gone
ExitLock(p) ==
    /\ Exit(p)
    /\ call' = [call EXCEPT !.pid[p] = None, !.locked[p] = FALSE]

\* "if self.lock_file.exists():"
AcquireExists(p) ==
    /\ pc[p] = "acquire"
    /\ Goto(p, IF LockFile(p) # 0 THEN "lock_read" ELSE "lock_write")
    /\ UNCHANGED <<db, lock_files, clock, runs, served, env, sess>>

\* "pid = int(self.lock_file.read_text().strip())"; FileNotFoundError when
\* the file is gone by now
AcquireRead(p) ==
    /\ pc[p] = "lock_read"
    /\ IF LockFile(p) # 0
       THEN /\ call' = [call EXCEPT !.pid[p] = LockFile(p)]
            /\ Goto(p, "lock_kill")
       ELSE /\ Goto(p, "lock_unlink_invalid")
            /\ UNCHANGED call
    /\ UNCHANGED <<db, lock_files, clock, runs, served, active, sess>>

\* "os.kill(pid, 0)": return False (and sys.exit(1)) when the process
\* exists, else on to the removal of the stale file
AcquireKill(p) ==
    /\ pc[p] = "lock_kill"
    /\ IF Alive(call.pid[p])
       THEN ExitLock(p)
       ELSE Goto(p, "lock_unlink_stale") /\ UNCHANGED call
    /\ UNCHANGED <<db, lock_files, clock, runs, served, active, sess>>

\* "self.lock_file.unlink()" in "except OSError:"; its FileNotFoundError is
\* caught by the outer handler
AcquireUnlinkStale(p) ==
    /\ pc[p] = "lock_unlink_stale"
    /\ IF LockFile(p) # 0
       THEN /\ lock_files' = [lock_files EXCEPT ![script[p]] = 0]
            /\ Goto(p, "lock_write")
       ELSE /\ Goto(p, "lock_unlink_invalid")
            /\ UNCHANGED lock_files
    /\ UNCHANGED <<db, clock, runs, served, env, sess>>

\* "self.lock_file.unlink()" in "except (ValueError, FileNotFoundError):";
\* its FileNotFoundError leaves acquire() and ends the process
AcquireUnlinkInvalid(p) ==
    /\ pc[p] = "lock_unlink_invalid"
    /\ IF LockFile(p) # 0
       THEN /\ lock_files' = [lock_files EXCEPT ![script[p]] = 0]
            /\ Goto(p, "lock_write")
            /\ UNCHANGED call
       ELSE /\ ExitLock(p)
            /\ UNCHANGED lock_files
    /\ UNCHANGED <<db, clock, runs, served, active, sess>>

\* "self.lock_file.write_text(str(os.getpid()))", "self._locked = True",
\* "return True"
AcquireWrite(p) ==
    /\ pc[p] = "lock_write"
    /\ lock_files' = [lock_files EXCEPT ![script[p]] = p]
    /\ call' = [call EXCEPT !.locked[p] = TRUE]
    /\ Goto(p, "held")
    /\ UNCHANGED <<db, clock, runs, served, active, sess>>

\* "if self._locked and self.lock_file.exists():" of release(), called at
\* pc = at; after names what follows release()
ReleaseExists(p, at, unlink_at, after) ==
    /\ pc[p] = at
    /\ IF call.locked[p] /\ LockFile(p) # 0
       THEN Goto(p, unlink_at) /\ UNCHANGED call
       ELSE IF after = "idle" THEN ExitLock(p)
       ELSE Goto(p, after) /\ UNCHANGED call
    /\ UNCHANGED <<db, lock_files, clock, runs, served, active, sess>>

\* "self.lock_file.unlink()", "self._locked = False"; the exception of
\* unlink() on a file that is gone is logged
ReleaseUnlink(p, at, after) ==
    /\ pc[p] = at
    /\ lock_files' = [lock_files EXCEPT ![script[p]] = 0]
    /\ IF after = "idle" THEN ExitLock(p)
       ELSE /\ Goto(p, after)
            /\ call' = [call EXCEPT !.locked[p] = (LockFile(p) = 0)]
    /\ UNCHANGED <<db, clock, runs, served, active, sess>>

\* the with statement is left: __exit__ calls release()
ExitRelease(p) ==
    \/ ReleaseExists(p, "held", "lock_unlink", "atexit_release")
    \/ ReleaseUnlink(p, "lock_unlink", "atexit_release")

\* the interpreter ends: atexit calls release() once more
AtexitRelease(p) ==
    \/ ReleaseExists(p, "atexit_release", "atexit_unlink", "idle")
    \/ ReleaseUnlink(p, "atexit_unlink", "idle")

\* SIGKILL inside the with statement: neither __exit__ nor atexit runs and
\* the lock file stays
Killed(p) ==
    /\ pc[p] = "held"
    /\ ExitLock(p)
    /\ UNCHANGED <<db, lock_files, clock, runs, served, active, sess>>

StepLock(p) ==
    \/ StartDailyUpdate(p)
    \/ AcquireExists(p)
    \/ AcquireRead(p)
    \/ AcquireKill(p)
    \/ AcquireUnlinkStale(p)
    \/ AcquireUnlinkInvalid(p)
    \/ AcquireWrite(p)
    \/ ExitRelease(p)
    \/ AtexitRelease(p)
    \/ Killed(p)

NextLock == \E p \in Procs : StepLock(p)

SpecLock == InitLock /\ [][NextLock]_vars

\* ------------------------------------------------------------------ claims
\* C1 -- normalization completeness: when normalize() ran with no limit,
\* every row that was unprocessed could be normalised and no batch commit
\* failed, then on return no row of raw_data has is_processed = FALSE.
C1_NormalizationCompleteness ==
    \A p \in Procs :
        (/\ pc[p] = "normalized"
         /\ ~HasLimit(nrm[p].limit)
         /\ nrm[p].all_valid
         /\ ~nrm[p].commit_failed)
        => Unprocessed(raw_data) = {}

\* C2 -- watermark safety: in a run of update() in which get_change_id,
\* get_changes or _save_changes raised, sync_state stays what the run
\* found, whatever pages the run committed before.
C2_WatermarkSafety ==
    \A p \in Procs : upd[p].raised # NotRaised => sync_state = upd[p].sync_before

\* a run that committed a page with a new row, then met an exception, has
\* returned
C2_Witness ==
    \E p \in Procs :
        /\ pc[p] = "updated"
        /\ upd[p].raised = "get_changes"
        /\ upd[p].stats.total_loaded > 0
        /\ raw_data # <<>>

\* C3 -- watermark advance: when the walk ran to a null next_change_id and
\* no request and no commit raised, sync_state is the one row (process_date,
\* cur_change_id of the last page), whatever records the pages rejected.
C3_WatermarkAdvance ==
    \A p \in Procs :
        (pc[p] = "updated" /\ upd[p].walked /\ upd[p].raised = NotRaised)
        => /\ Len(sync_state) = 1
           /\ sync_state[1].last_successful_date = upd[p].process_date
           /\ upd[p].served_cursor # None
                 => sync_state[1].last_change_id = upd[p].served_cursor

\* C4 -- idempotent 'added': in any open page, an 'added' record whose id
\* has a committed row stages no new row, adds one to duplicates and to no
\* other counter, and leaves what the commit of the page writes unchanged.
C4_IdempotentAdded ==
    \A p \in Procs :
        pc[p] = "save_changes" =>
            \A record \in ChangeRecords :
                (record.change_type = "added"
                 /\ Cardinality(Matching(raw_data, record.inner_id)) = 1)
                => LET before == sess[p]
                       after == SaveChange(before, raw_data, record, "daily_update")
                   IN /\ after.pending = before.pending
                      /\ after.stats = Bump(before.stats, "duplicates")
                      /\ FlushAll(raw_data, after.objs, after.pending, clock)
                           = FlushAll(raw_data, before.objs, before.pending, clock)

\* a page has counted a duplicate for a row that is already normalised
C4_Witness ==
    \E p \in Procs :
        /\ pc[p] = "save_changes"
        /\ sess[p].stats.duplicates = 1
        /\ sess[p].pending = <<>>
        /\ \E i \in DOMAIN sess[p].objs : raw_data[i].is_processed

\* the step in which the commit of a batch of process p fails
BatchCommitFails(p) ==
    pc[p] = "commit_batch" /\ ~nrm[p].commit_failed /\ nrm'[p].commit_failed

\* C5 -- normalization restartability: when the commit of a batch fails,
\* every row of the batch has is_processed = FALSE afterwards and
\* processed_data is what it was before the batch.
C5_NormalizationRestartable ==
    [][\A p \in Procs :
          BatchCommitFails(p)
          => /\ \A pk \in Range(sess[p].records) : ~raw_data'[pk].is_processed
             /\ raw_data' = raw_data
             /\ processed_data' = processed_data]_vars

\* a pass has ended on a failed commit and left a row unprocessed that it
\* had extracted and validated
C5_Witness ==
    \E p \in Procs :
        /\ pc[p] = "normalized"
        /\ nrm[p].commit_failed
        /\ \E i \in Unprocessed(raw_data) : Normalizable(raw_data[i])

\* the step in which the commit of a change page of process p fails
PageCommitFails(p) ==
    pc[p] = "save_changes" /\ upd[p].raised = NotRaised /\ upd'[p].raised = "_save_changes"

\* C6 -- page atomicity: a step of _save_changes leaves raw_data alone or
\* applies everything the page staged; when the commit fails raw_data is
\* what it was before the page.
C6_PageAtomicity ==
    [][\A p \in Procs :
          pc[p] = "save_changes"
          => /\ \/ raw_data' = raw_data
                \/ /\ raw_data' = FlushAll(raw_data, sess[p].objs, sess[p].pending, clock)
                   /\ upd'[p].raised = NotRaised
             /\ PageCommitFails(p) => raw_data' = raw_data]_vars

\* a run committed a page that created a row, then the commit of its next
\* page failed; that page held a record that staged a mutation
C6_Witness ==
    \E p \in Procs :
        /\ pc[p] = "finish_update"
        /\ upd[p].raised = "_save_changes"
        /\ served = 2
        /\ upd[p].stats.total_loaded = 1
        /\ upd[p].stats.total_errors = 1
        /\ upd[p].stats.total_duplicates = 0

\* C7 -- RawRecord uniqueness: in every committed state no two rows of
\* raw_data have the same inner_id.
C7_RawUniqueness ==
    \A i, j \in 1..Len(raw_data) : raw_data[i].inner_id = raw_data[j].inner_id => i = j

\* a row the bulk load created was changed in place by a later change page
C7_Witness ==
    /\ Len(raw_data) = 1
    /\ raw_data[1].source = "initial_load"
    /\ raw_data[1].change_type \in {"changed", "removed"}

\* C8 -- ProcessedRecord uniqueness: in every committed state no two rows
\* of processed_data have the same inner_id, and every row of raw_data that
\* is marked processed has exactly one row of processed_data.
C8_ProcessedUniqueness ==
    /\ \A i, j \in 1..Len(processed_data) :
          processed_data[i].inner_id = processed_data[j].inner_id => i = j
    /\ \A i \in 1..Len(raw_data) :
          raw_data[i].is_processed
          => Cardinality(Matching(processed_data, raw_data[i].inner_id)) = 1

\* process p is inside an ingestion run / inside a normalisation pass
Ingesting(p) ==
    pc[p] \in {"update", "get_change_id", "get_changes", "save_changes", "finish_update",
               "load", "save_page"}

Normalizing(p) == pc[p] \in {"process_batch", "commit_batch"}

\* C9 -- single instance per run kind: no two processes are inside an
\* ingestion run at the same time, and no two inside a normalisation pass.
C9_SingleInstance ==
    \A p, q \in Procs :
        p # q => /\ ~(Ingesting(p) /\ Ingesting(q))
                 /\ ~(Normalizing(p) /\ Normalizing(q))

\* C10 -- processed flag soundness: every row marked processed has a row of
\* processed_data; a row becomes processed only in a step that commits the
\* ProcessedData extracted from it, and only when it passes extraction and
\* validation; a row that does not pass stays unprocessed and the rows of
\* processed_data of its id stay as they are.
C10_ProcessedFlagSound ==
    [][/\ \A i \in 1..Len(raw_data') :
             raw_data'[i].is_processed
             => Matching(processed_data', raw_data'[i].inner_id) # {}
       /\ \A i \in 1..Len(raw_data) :
             (~raw_data[i].is_processed /\ raw_data'[i].is_processed)
             => /\ Normalizable(raw_data[i])
                /\ \E j \in 1..Len(processed_data') :
                      processed_data'[j] =
                          ProcessedData(raw_data[i].inner_id, raw_data[i].active_status,
                                        _normalize_record(raw_data[i].data.fields))
       /\ \A i \in 1..Len(raw_data) :
             (~raw_data[i].is_processed /\ ~Normalizable(raw_data[i]))
             => /\ ~raw_data'[i].is_processed
                /\ \A j \in Matching(processed_data, raw_data[i].inner_id) :
                      processed_data'[j] = processed_data[j]]_vars

\* a pass has returned and left unprocessed a row that fails validation
\* and has a row of processed_data from an earlier pass
C10_Witness ==
    \E p \in Procs :
        /\ pc[p] = "normalized"
        /\ \E i \in Unprocessed(raw_data) :
              /\ ~Normalizable(raw_data[i])
              /\ Matching(processed_data, raw_data[i].inner_id) # {}

\* C11 -- walk gate: when sync_state has a row whose last_successful_date is
\* at or after the target date, update() returns from its first step with
\* all counters zero, has asked the upstream API for no cursor and no page,
\* and leaves raw_data and sync_state as they were.
C11_WalkGate ==
    [][\A p \in Procs :
          (/\ pc[p] = "update"
           /\ pc'[p] # "update"
           /\ \E i \in 1..Len(sync_state) :
                 sync_state[i].last_successful_date >= upd'[p].process_date)
          => /\ pc'[p] = "updated"
             /\ upd'[p].stats = ZeroUpdateStats
             /\ upd'[p].current_change_id = None
             /\ clock' = clock
             /\ served' = served
             /\ raw_data' = raw_data
             /\ sync_state' = sync_state]_vars

\* a run for the date of the watermark has returned at the gate, over a raw
\* store that holds rows
C11_Witness ==
    \E p \in Procs :
        /\ pc[p] = "updated"
        /\ upd[p].sync_before # <<>>
        /\ upd[p].sync_before[1].last_successful_date = upd[p].process_date
        /\ upd[p].stats = ZeroUpdateStats
        /\ upd[p].current_change_id = None
        /\ raw_data # <<>>

\* C12 -- walk termination: while nothing raises, every get_changes request
\* carries the cursor of get_change_id first and then the non-null
\* next_change_id of the page before it; the walk goes on after a page,
\* empty or not, exactly when its next_change_id is not null, and ends right
\* after the first page whose next_change_id is null; so a walk over a
\* finite chain of cursors ends.
C12_WalkTermination ==
    /\ [](\A p \in Procs :
             /\ pc[p] = "save_changes"
                   => upd[p].requested = upd[p].current_change_id
             /\ (pc[p] = "get_changes" /\ upd[p].requested # None)
                   => /\ upd[p].next_change_id # None
                      /\ upd[p].current_change_id = upd[p].next_change_id
             /\ (pc[p] = "finish_update" /\ upd[p].raised = NotRaised)
                   => /\ upd[p].requested # None
                      /\ upd[p].next_change_id = None)
    /\ \A p \in Procs : (pc[p] = "get_changes") ~> (pc[p] = "finish_update")

\* after an empty page that named another cursor the walk is about to
\* request that cursor
C12_Witness ==
    \E p \in Procs :
        /\ pc[p] = "get_changes"
        /\ upd[p].requested = 1
        /\ upd[p].next_change_id = 2
        /\ upd[p].current_change_id = 2
        /\ served = 0

\* C13 -- merge correctness: for an incoming payload of delta keys new_K
\* only, merge_json returns a dict that maps every such K to the value of
\* new_K, keeps the value of every other key of the existing payload, has
\* no other key, and the existing payload object holds what it held.
C13_MergeCorrectness ==
    (call.fn = "merge_json" /\ call.merged # None)
    => LET result == call.heap[call.merged]
           existing == call.argument
           incoming == DictOf(call.new_data)
           folded == {Tail(k) : k \in DOMAIN incoming}
       IN /\ \A k \in DOMAIN incoming :
                Tail(k) \in DOMAIN result /\ result[Tail(k)] = incoming[k]
          /\ \A k \in DOMAIN existing \ folded :
                k \in DOMAIN result /\ result[k] = existing[k]
          /\ DOMAIN result = DOMAIN existing \cup folded
          /\ call.heap[call.existing_data] = existing

\* merge_json has returned for a stored {year, price} and an incoming
\* {new_year}: the year is the new one, the price is kept
C13_Witness ==
    /\ call.fn = "merge_json"
    /\ call.merged # None
    /\ DOMAIN call.argument = {<<"year">>, <<"price">>}
    /\ call.argument[<<"year">>] = 1
    /\ call.new_data = << << <<"new_", "year">>, 3 >> >>
    /\ call.heap[call.merged][<<"year">>] = 3
    /\ call.heap[call.merged][<<"price">>] = call.argument[<<"price">>]

\* C14 -- replay idempotence: when a page of added, changed and removed
\* records was applied and committed and is applied and committed again,
\* raw_data holds the same ids and every row has the payload, the change
\* kind and the active flag the first application gave it.
C14_ReplayIdempotence ==
    (call.fn = "_save_changes" /\ Len(call.applied) = 2)
    => LET first == call.applied[1]
           again == call.applied[2]
       IN /\ {first[i].inner_id : i \in 1..Len(first)} = {again[i].inner_id : i \in 1..Len(again)}
          /\ \A i \in 1..Len(first), j \in 1..Len(again) :
                first[i].inner_id = again[j].inner_id
                => /\ first[i].data = again[j].data
                   /\ first[i].change_type = again[j].change_type
                   /\ first[i].active_status = again[j].active_status

\* C15 -- year validation: a record whose extracted year is an integer
\* outside [1900, current_year + 1] is rejected: it counts as an error, its
\* row stays unprocessed and processed_data is not written; a record whose
\* extracted year lies in the range passes and, when the batch commits, is
\* processed.
C15_YearValidation ==
    (call.fn = "_process_batch" /\ call.returned)
    => LET year == call.normalized.year
           inside == MinYear <= year /\ year <= CurrentYear + 1
       IN /\ (year # None /\ ~inside)
                => /\ call.stats.errors >= 1
                   /\ ~call.raw[1].is_processed
                   /\ call.processed = call.before
          /\ (year # None /\ inside /\ call.committed)
                => /\ call.stats.errors = 0
                   /\ call.raw[1].is_processed
                   /\ \E j \in 1..Len(call.processed) : call.processed[j].year = year

\* C16 -- bounded retry: retry_sync and retry_async call func at most
\* max_attempts times and never after it returned; they return the result of
\* the first call that returned; they give up exactly at a failure that is
\* the last allowed attempt or finds the elapsed time at or over the
\* ceiling, and then raise the exception of the most recent call; between
\* two consecutive calls they sleep once, for interval_seconds.
C16_BoundedRetry ==
    Retrying
    => LET n == Len(call.outcomes)
       IN /\ n <= call.max_attempts
          /\ \A i \in 1..(n - 1) : call.outcomes[i] = "raised"
          /\ call.at = "returned"
                => /\ call.outcomes[n] = "returned"
                   /\ call.result = n
          /\ call.at = "raised"
                => /\ call.outcomes[n] = "raised"
                   /\ call.raised = n
                   /\ n = call.max_attempts \/ call.elapsed_time >= call.total_timeout_seconds
          /\ call.at = "sleep"
                => /\ call.outcomes[n] = "raised"
                   /\ n < call.max_attempts
                   /\ call.elapsed_time < call.total_timeout_seconds
          /\ call.waits = (IF call.at = "call" THEN n ELSE n - 1)
          /\ call.slept = call.waits * call.interval_seconds

\* the third call returned after two failures and two sleeps
C16_Witness ==
    /\ Retrying
    /\ call.at = "returned"
    /\ call.outcomes = <<"raised", "raised", "returned">>
    /\ call.result = 3
    /\ call.waits = 2

\* C17 -- operation ledger: when a run of update() is over, whichever way
\* it went (gate, no cursor, get_change_id raised, walk completed, page
\* error, unexpected exception, interrupt), it has added exactly one row to
\* operations_log.
C17_OperationLedger ==
    \A p \in Procs :
        (pc[p] = "updated" \/ (pc[p] = "release" /\ upd[p].raised # NotRaised))
        => Len(upd[p].logged) = 1

\* C18 -- failed unit surfaces as failure: when get_changes raised in a run
\* of daily_update.py, main returns a non-zero exit status, whatever the
\* pages before loaded and whether normalisation was skipped or succeeded.
C18_FailedUnitSurfaces ==
    \A p \in Procs :
        (upd[p].fetch_failed /\ upd[p].exit_code # None) => upd[p].exit_code # 0

\* C19 -- watermark singleton: over runs of update() that do not overlap,
\* sync_state never holds more than one row; a successful run that finds no
\* row creates it, and one that finds the row writes its date and cursor
\* into that row.
C19_WatermarkSingleton ==
    [][/\ Len(sync_state') <= 1
       /\ Len(sync_state) = 1 => Len(sync_state') = 1
       /\ \A p \in Procs :
             (pc[p] = "finish_update" /\ upd'[p].stats.dates_processed = 1)
             => /\ Len(sync_state') = 1
                /\ sync_state'[1].last_successful_date = upd[p].process_date
                /\ sync_state'[1].last_change_id = upd[p].last_change_id]_vars

\* a second successful run has written a later date into the row the first
\* one created
C19_Witness ==
    \E p \in Procs :
        /\ pc[p] = "updated"
        /\ upd[p].stats.dates_processed = 1
        /\ Len(upd[p].sync_before) = 1
        /\ Len(sync_state) = 1
        /\ sync_state[1].last_successful_date > upd[p].sync_before[1].last_successful_date

\* C20 -- record ceiling: a pass normalize(limit = N), N >= 1, turns
\* is_processed TRUE on at most N rows, whatever the batch size and the
\* number of unprocessed rows.
C20_RecordCeiling ==
    \A p \in Procs : HasLimit(nrm[p].limit) => nrm[p].marked <= nrm[p].limit

\* a pass with limit 1 and batch size 2 has returned after it marked one of
\* two rows that both could be normalised
C20_Witness ==
    \E p \in Procs :
        /\ pc[p] = "normalized"
        /\ nrm[p].limit = 1
        /\ nrm[p].batch_size = 2
        /\ nrm[p].marked = 1
        /\ \E i \in Unprocessed(raw_data) : Normalizable(raw_data[i])

\* C21 -- intra-page visibility: inside one page a record sees what the
\* records before it staged: a second record for an id the page has already
\* staged a row for stages no second row (it is a duplicate or an update of
\* the first), so the page never holds two staged rows of one id and its
\* commit can succeed with one row for that id.
C21_IntraPageVisibility ==
    \A p \in Procs :
        pc[p] = "save_changes"
        => /\ \A i, j \in 1..Len(sess[p].pending) :
                 sess[p].pending[i].inner_id = sess[p].pending[j].inner_id => i = j
           /\ UniqueInnerId(raw_data, sess[p].pending)

\* C22 -- commit-failure accounting: when the commit of a page of n change
\* records fails, the run's total_errors grows by n in that step.
C22_CommitFailureAccounting ==
    [][\A p \in Procs :
          PageCommitFails(p)
          => upd'[p].stats.total_errors = upd[p].stats.total_errors + sess[p].count]_vars

\* the run of update() of process p in which get_changes raised
FetchRaised(p) == upd[p].raised = "get_changes"

\* C23 -- abort on page error: when get_changes raises, the walk goes
\* straight to the end of update(); from then on the run requests no page
\* and no cursor and reads no record, raw_data keeps every page committed
\* before, sync_state is not written, and the row the run adds to
\* operations_log has status ERROR.
C23_AbortOnPageError ==
    [][\A p \in Procs :
          /\ (~FetchRaised(p) /\ upd'[p].raised = "get_changes")
                => /\ pc'[p] = "finish_update"
                   /\ raw_data' = raw_data
          /\ FetchRaised(p)
                => /\ pc'[p] \notin {"get_change_id", "get_changes", "save_changes"}
                   /\ clock' = clock
                   /\ served' = served
                   /\ raw_data' = raw_data
                   /\ sync_state' = sync_state
                   /\ pc[p] = "finish_update"
                         => /\ pc'[p] = "updated"
                            /\ upd'[p].logged = <<"ERROR">>
                            /\ upd'[p].current_change_id = upd[p].requested]_vars

\* a run committed a page that created a row and named another cursor; the
\* request of that cursor raised, and the run has returned with its row of
\* operations_log written
C23_Witness ==
    \E p \in Procs :
        /\ pc[p] = "updated"
        /\ FetchRaised(p)
        /\ upd[p].logged = <<"ERROR">>
        /\ upd[p].stats.total_loaded = 1
        /\ upd[p].stats.total_errors = 1
        /\ Len(raw_data) = 1

\* C24 -- normalisation error accounting: every row a batch examined and
\* rejected is counted in the total_errors of the pass: in the step that
\* ends a batch, total_errors grows by at least the number of rows the
\* batch rejected, also when it rejected every row.
C24_NormalizationErrorAccounting ==
    [][\A p \in Procs :
          pc[p] = "commit_batch"
          => nrm'[p].stats.total_errors
                >= nrm[p].stats.total_errors + sess[p].stats.errors]_vars

\* C25 -- removal propagation: in any open page a 'removed' record whose id
\* has a committed row stages no row and deletes none; the commit of the
\* page writes active_status = 1 and is_processed = FALSE into that row and
\* leaves its payload as it was. Every inactive row that a normalisation
\* pass has marked processed since has rows of processed_data, and they are
\* inactive too.
C25_RemovalPropagation ==
    /\ \A p \in Procs :
          pc[p] = "save_changes" =>
              \A record \in ChangeRecords :
                  (record.change_type = "removed"
                   /\ Cardinality(Matching(raw_data, record.inner_id)) = 1)
                  => LET pk == TheOne(Matching(raw_data, record.inner_id))
                         before == sess[p]
                         held == Load(before.objs, raw_data, pk)[pk].cur
                         after == SaveChange(before, raw_data, record, "daily_update")
                         written == FlushAll(raw_data, after.objs, after.pending, clock)
                     IN /\ after.pending = before.pending
                        /\ Len(written) >= Len(raw_data)
                        /\ written[pk].inner_id = record.inner_id
                        /\ written[pk].data = held.data
                        /\ written[pk].active_status = 1
                        /\ ~written[pk].is_processed
    /\ \A i \in 1..Len(raw_data) :
          (raw_data[i].is_processed /\ raw_data[i].active_status = 1)
          => /\ Matching(processed_data, raw_data[i].inner_id) # {}
             /\ \A j \in Matching(processed_data, raw_data[i].inner_id) :
                   processed_data[j].active_status = 1

\* a row that had a payload when it was removed has been normalised again:
\* it is processed and inactive, and so is its row of processed_data
C25_Witness ==
    \E i \in 1..Len(raw_data) :
        /\ raw_data[i].change_type = "removed"
        /\ raw_data[i].active_status = 1
        /\ raw_data[i].is_processed
        /\ raw_data[i].data = Stored(JItems(<< << <<"year">>, JInt(2019) >> >>))
        /\ \E j \in 1..Len(processed_data) :
              /\ processed_data[j].inner_id = raw_data[i].inner_id
              /\ processed_data[j].active_status = 1
              /\ processed_data[j].year = 2019

\* acquire() of process p returned True and p has not begun release()
Holds(p) == pc[p] = "held"

\* C26 -- lock mutual exclusion: however the statements of concurrent
\* acquire() calls on one lock name interleave, no two live processes have
\* acquire() returned True at the same time without a release between
\* them; and no release() removes a lock file that records another live
\* holder.
C26_LockMutualExclusion ==
    /\ [](\A p, q \in Procs : (Holds(p) /\ Holds(q)) => p = q)
    /\ [][\A p, q \in Procs :
             (/\ pc[p] \in {"lock_unlink", "atexit_unlink"}
              /\ pc'[p] # pc[p]
              /\ p # q
              /\ Holds(q))
             => LockFile(p) # q]_vars

\* C27 -- retry observer: on_retry is called once after every failed
\* attempt that is followed by another attempt, with the number and the
\* exception of that attempt and before the sleep, and at no other time
\* (not after the last failed attempt, not after a success, never without
\* a callback); whether or not a callback raised, the sleep and the next
\* attempt follow, and what the wrapper raises is the exception of func.
C27_RetryObserver ==
    Retrying
    => LET n == Len(call.outcomes)
           seen == Len(call.observed)
       IN /\ seen = (IF ~call.on_retry THEN 0
                     ELSE IF call.at \in {"call", "sleep"} THEN n ELSE n - 1)
          /\ \A i \in 1..seen :
                /\ call.observed[i].attempt = i
                /\ call.observed[i].exception = i
                /\ call.observed[i].waits = i - 1
                /\ call.outcomes[i] = "raised"
          /\ call.at \in {"call", "sleep"} => call.attempt = call.waits + 1
          /\ call.at = "raised"
                => /\ call.raised = n
                   /\ call.raised # CallbackError

\* the callback raised after the first failure and returned after the
\* second, and the third call of func returned
C27_Witness ==
    /\ Retrying
    /\ call.on_retry
    /\ call.at = "returned"
    /\ call.outcomes = <<"raised", "raised", "returned">>
    /\ Len(call.observed) = 2
    /\ call.observed[1].raised
    /\ ~call.observed[2].raised

\* C28 -- inactive is absorbing: a committed row of raw_data with
\* active_status = 1 keeps its place, its id and active_status = 1 in every
\* step: no change record of any kind, no page of the bulk load and no
\* normalisation pass makes it active again.
C28_InactiveAbsorbing ==
    [][\A i \in 1..Len(raw_data) :
          raw_data[i].active_status = 1
          => /\ i <= Len(raw_data')
             /\ raw_data'[i].inner_id = raw_data[i].inner_id
             /\ raw_data'[i].active_status = 1]_vars

\* a page after the removal of a row wrote a 'changed' record into it, and
\* the row is still inactive
C28_Witness ==
    \E i \in 1..Len(raw_data) :
        /\ raw_data[i].active_status = 1
        /\ raw_data[i].change_type = "changed"
        /\ raw_data[i].data # JObject(EmptyDict)

\* every row that passes extraction and validation is processed
ValidProcessed ==
    \A i \in 1..Len(raw_data) : Normalizable(raw_data[i]) => raw_data[i].is_processed

\* C29 -- no starvation by invalid records: when normalize() is called
\* again and again with no limit, every commit succeeds and no change
\* arrives, every row that passes extraction and validation is processed
\* in the end, whatever rows that cannot be normalised lie before it.
C29_NoStarvation == <>ValidProcessed

\* C30 -- watermark monotonicity: over runs of update() that do not
\* overlap, whatever their target dates and outcomes, the row of sync_state
\* is never removed and its last_successful_date never decreases; sync_state
\* changes only in the last step of a run that met no error and whose
\* target date is later than the watermark it found, and then
\* last_successful_date is that target date.
C30_WatermarkMonotonic ==
    [][/\ sync_state # <<>>
             => /\ sync_state' # <<>>
                /\ sync_state'[1].last_successful_date >= sync_state[1].last_successful_date
       /\ sync_state' # sync_state
             => \E p \in Procs :
                   /\ pc[p] = "finish_update"
                   /\ upd[p].stats.total_errors = 0
                   /\ upd[p].raised = NotRaised
                   /\ sync_state # <<>>
                         => upd[p].process_date > sync_state[1].last_successful_date
                   /\ sync_state'[1].last_successful_date = upd[p].process_date]_vars

\* a run with a start date before the watermark has returned and the
\* watermark is what it was
C30_Witness ==
    \E p \in Procs :
        /\ pc[p] = "updated"
        /\ upd[p].sync_before # <<>>
        /\ upd[p].process_date < upd[p].sync_before[1].last_successful_date
        /\ sync_state = upd[p].sync_before

====
